---- MODULE Spec2Model ----
\* Model of parsl/data_provider/globus.py: the process-wide Globus authorizer
\* (token cache file, native-app login, refresh callback) and
\* Globus.transfer_file (submit one transfer, poll it until it leaves ACTIVE).
\*
\* A thread executes one top-level call at a time, statement by statement;
\* pc[t] names the source line the thread is about to execute.  The remote
\* Transfer service (job status, error events) and the authorizer's refresh
\* are the environment.  Remote calls other than submit_transfer and
\* oauth2_exchange_code_for_tokens are modelled as answering.
EXTENDS Integers, Sequences, FiniteSets, TLC

\* ---------------------------------------------------------------- bounds
\* Top-level calls a thread makes.
MaxCalls == 3
\* Error events the service records for one job.
MaxEvents == 2
\* Elapsed 60-second wait periods, counted over the transfer_file calls under way.
MaxPolls == 3
\* Token refreshes of the authorizer.
MaxRefreshes == 2
\* Jobs the service accepts from one thread.
MaxJobs == 1
\* Error events of one job when their timestamps are not ordered.
MaxUnorderedEvents == 3

\* The threads of the process.  Every thread has its own locals; the
\* single-threaded specifications let MainThread alone make calls.
Threads == {"main", "worker"}
MainThread == "main"

\* ------------------------------------------------------- Python values
\* Timestamps are positive; None_time stands for Python's None in
\* last_event_time.
None_time == 0
\* Object ids of RefreshTokenAuthorizer instances are positive; None_id is the
\* class attribute's initial None.
None_id == 0

TRANSFER_RS == "transfer.api.globus.org"
AUTH_RS == "auth.globus.org"

\* A parsed JSON value / Python object held in `tokens`.
\* type "NoneType": None (also what json.load gives for null);
\* type "dict": items maps keys to records (functions from field names to
\* values); type "list": a non-empty JSON array.
PyNone == [type |-> "NoneType", items |-> <<>>]
PyDict(d) == [type |-> "dict", items |-> d]
PyList == [type |-> "list", items |-> <<>>]

\* Mutant of Truthy: only a bundle with a transfer record counts.
Truthy_Usable(v) == v.type = "dict" /\ TRANSFER_RS \in DOMAIN v.items

\* Python truthiness of a value (`not tokens`, line 72).
Truthy(v) ==
    CASE v.type = "NoneType" -> FALSE
      [] v.type = "dict" -> DOMAIN v.items # {}
      [] OTHER -> TRUE

\* ------------------------------------------------------------ JSON text
\* A JSON document as text: an ordered list of members, each member's value
\* an ordered list of fields.  kind "invalid" is text json.load rejects.
KeyOrder == <<AUTH_RS, TRANSFER_RS, "other.example.org">>
FieldOrder == <<"access_token", "expires_at_seconds", "refresh_token", "scope">>

RECURSIVE EmitFields(_, _)
EmitFields(rec, i) ==
    IF i > Len(FieldOrder) THEN <<>>
    ELSE IF FieldOrder[i] \in DOMAIN rec
         THEN <<[name |-> FieldOrder[i], value |-> rec[FieldOrder[i]]]>>
              \o EmitFields(rec, i + 1)
         ELSE EmitFields(rec, i + 1)

RECURSIVE EmitMembers(_, _)
EmitMembers(d, i) ==
    IF i > Len(KeyOrder) THEN <<>>
    ELSE IF KeyOrder[i] \in DOMAIN d
         THEN <<[name |-> KeyOrder[i], value |-> EmitFields(d[KeyOrder[i]], 1)]>>
              \o EmitMembers(d, i + 1)
         ELSE EmitMembers(d, i + 1)

\* json.dump(tokens, f): the text written for a Python value.
json_dump(v) ==
    CASE v.type = "dict" -> [kind |-> "object", members |-> EmitMembers(v.items, 1)]
      [] v.type = "list" -> [kind |-> "array", members |-> <<>>]
      [] OTHER -> [kind |-> "null", members |-> <<>>]

\* The object a list of name/value pairs denotes (a repeated name keeps its
\* last value, as json.load does).
Last(pairs, n) ==
    LET I == {i \in 1..Len(pairs) : pairs[i].name = n}
        m == CHOOSE i \in I : \A j \in I : j <= i
    IN pairs[m].value

ParseFields(fields) ==
    [n \in {fields[i].name : i \in 1..Len(fields)} |-> Last(fields, n)]

ParseMembers(members) ==
    [n \in {members[i].name : i \in 1..Len(members)} |->
        ParseFields(Last(members, n))]

\* json.load(f) on valid text.
json_load(text) ==
    CASE text.kind = "object" -> PyDict(ParseMembers(text.members))
      [] text.kind = "array" -> PyList
      [] OTHER -> PyNone

\* ------------------------------------------------------------ TOKEN_FILE
\* state "missing": no file; "unreadable": open(..., 'r') fails;
\* "present": readable, holding text.
NoText == [kind |-> "invalid", members |-> <<>>]
MissingFile == [state |-> "missing", text |-> NoText]
UnreadableFile == [state |-> "unreadable", text |-> NoText]
PresentFile(text) == [state |-> "present", text |-> text]

\* _load_tokens_from_file raises (open or json.load) on these files.
LoadRaises(f) == f.state # "present" \/ f.text.kind = "invalid"

\* _load_tokens_from_file's return value when it does not raise.
_load_tokens_from_file(f) == json_load(f.text)

\* Lines 66-70: tokens after the try/except around the load.
LoadedTokens(f) == IF LoadRaises(f) THEN PyNone ELSE _load_tokens_from_file(f)

\* Mutant of SaveOutcomes: only the transfer record is written.
SaveOutcomes_TransferOnly(f, v) ==
    { [ok |-> TRUE,
       file |-> PresentFile(json_dump(
           PyDict([k \in DOMAIN v.items \cap {TRANSFER_RS} |-> v.items[k]])))],
      [ok |-> FALSE, file |-> f],
      [ok |-> FALSE, file |-> PresentFile(NoText)] }

\* _save_tokens_to_file(filepath, tokens): the files it can leave behind.
\* ok: the whole text was written.  Otherwise it raises, either before the
\* file was touched (open failed) or after open(..., 'w') truncated it.
SaveOutcomes(f, v) ==
    { [ok |-> TRUE, file |-> PresentFile(json_dump(v))],
      [ok |-> FALSE, file |-> f],
      [ok |-> FALSE, file |-> PresentFile(NoText)] }

\* ------------------------------------------------------- credential data
\* A record of a bundle as the Auth service issues it for one resource server.
TokenRecord(access, expires) ==
    [access_token |-> access, expires_at_seconds |-> expires,
     refresh_token |-> 1, scope |-> 1]

\* token_response.by_resource_server of the code exchange (line 62): one
\* record per resource server of SCOPES (openid -> auth, transfer).
ExchangeBundles ==
    { (AUTH_RS :> TokenRecord(a, 1)) @@ (TRANSFER_RS :> TokenRecord(a, 1)) : a \in {1, 2} }

\* token_response.by_resource_server of the k-th refresh (line 46): the
\* refreshed transfer record alone.
RefreshBundle(k) == (TRANSFER_RS :> TokenRecord(2 + k, 1 + k))

\* What the cache file can hold when the process starts.
InitialFiles ==
    { MissingFile,
      UnreadableFile,
      PresentFile(NoText),
      PresentFile([kind |-> "null", members |-> <<>>]),
      PresentFile([kind |-> "array", members |-> <<>>]),
      PresentFile(json_dump(PyDict(<<>>))),
      PresentFile(json_dump(PyDict(AUTH_RS :> TokenRecord(1, 1)))),
      PresentFile(json_dump(PyDict(
          TRANSFER_RS :> [access_token |-> 1, expires_at_seconds |-> 1]))),
      PresentFile(json_dump(PyDict(
          (AUTH_RS :> TokenRecord(1, 1)) @@ (TRANSFER_RS :> TokenRecord(1, 1))))) }

\* ------------------------------------------------------- transfer data
\* Arguments of transfer_file.
Requests ==
    { [src_ep |-> "ep1", src_path |-> "/a", dst_ep |-> "ep2", dst_path |-> "/b"] }

\* What submit_transfer can raise.
SubmitErrors == {"EndpointNotFound", "PermissionDenied"}

\* Task ids the service hands out, in order of submission.
TaskId(n) == <<"task1", "task2", "task3", "task4", "task5">>[n]
JobOf(id) == CHOOSE n \in 1..5 : TaskId(n) = id

\* The texts of the n-th error event of a job.
EventDescription(n) == <<"desc1", "desc2", "desc3", "desc4">>[n]
EventDetails(n) == <<"details1", "details2", "details3", "details4">>[n]

NoTask == [task_id |-> "", status |-> ""]
NoRequest == [src_ep |-> "", src_path |-> "", dst_ep |-> "", dst_path |-> ""]
\* How a call ended: the value returned, or the error raised (its type, the
\* pieces of its message, and the exception it wraps, if any).
NoResult == [kind |-> "none", type |-> "", msg |-> <<>>, cause |-> "", value |-> None_id]
Returned(v) == [kind |-> "returned", type |-> "", msg |-> <<>>, cause |-> "", value |-> v]
Raised(type, msg, cause) ==
    [kind |-> "raised", type |-> type, msg |-> msg, cause |-> cause, value |-> None_id]

VARIABLES
    authorizer,      \* Globus.authorizer: id of the authorizer object, or None_id
    objs,            \* the RefreshTokenAuthorizer objects constructed, by id
    file,            \* TOKEN_FILE
    refreshes,       \* refresh events so far
    last_refresh,    \* the latest refresh event: its bundle, whether the save raised
    jobs,            \* the service's jobs, by submission order
    pc,              \* per thread: the line about to be executed, or "idle"
    op,              \* per thread: the top-level call being (or last) executed
    ncalls,          \* per thread: top-level calls started
    result,          \* per thread: how the last call ended
    effects,         \* per thread: side effects of the current init()
    tokens,          \* per thread: _get_native_app_authorizer's tokens
    exchanged,       \* per thread: what the code exchange returned in this call
    ret,             \* per thread: the authorizer _get_native_app_authorizer returns
    tc,              \* per thread: the authorizer the TransferClient holds
    req,             \* per thread: transfer_file's arguments
    task,            \* per thread: transfer_file's task
    last_event_time, \* per thread: transfer_file's last_event_time
    log,             \* per thread: records the call logged
    rcalls,          \* per thread: remote calls the call made, in order
    polls,           \* per thread: elapsed wait periods of the call
    fetched,         \* per thread: times of the events the loop fetched, in order
    exited           \* per thread: task_wait returned True

authVars == <<authorizer, objs, file, refreshes, last_refresh>>
initLocals == <<effects, tokens, exchanged, ret>>
tfLocals == <<tc, req, task, last_event_time, log, rcalls, polls, fetched, exited>>
vars == <<authorizer, objs, file, refreshes, last_refresh, jobs, pc, op, ncalls,
          result, effects, tokens, exchanged, ret, tc, req, task,
          last_event_time, log, rcalls, polls, fetched, exited>>

NoRefresh == [n |-> 0, bundle |-> <<>>, ok |-> TRUE]

Init ==
    /\ authorizer = None_id
    /\ objs = <<>>
    /\ file \in InitialFiles
    /\ refreshes = 0
    /\ last_refresh = NoRefresh
    /\ jobs = <<>>
    /\ pc = [t \in Threads |-> "idle"]
    /\ op = [t \in Threads |-> "none"]
    /\ ncalls = [t \in Threads |-> 0]
    /\ result = [t \in Threads |-> NoResult]
    /\ effects = [t \in Threads |-> {}]
    /\ tokens = [t \in Threads |-> PyNone]
    /\ exchanged = [t \in Threads |-> PyNone]
    /\ ret = [t \in Threads |-> None_id]
    /\ tc = [t \in Threads |-> None_id]
    /\ req = [t \in Threads |-> NoRequest]
    /\ task = [t \in Threads |-> NoTask]
    /\ last_event_time = [t \in Threads |-> None_time]
    /\ log = [t \in Threads |-> <<>>]
    /\ rcalls = [t \in Threads |-> <<>>]
    /\ polls = [t \in Threads |-> 0]
    /\ fetched = [t \in Threads |-> <<>>]
    /\ exited = [t \in Threads |-> FALSE]

\* A thread starts a top-level call: the previous call's locals are gone.
Begin(t, o, line, r) ==
    /\ pc[t] = "idle"
    /\ ncalls[t] < MaxCalls
    /\ ncalls' = [ncalls EXCEPT ![t] = @ + 1]
    /\ op' = [op EXCEPT ![t] = o]
    /\ pc' = [pc EXCEPT ![t] = line]
    /\ result' = [result EXCEPT ![t] = r]
    /\ effects' = [effects EXCEPT ![t] = {}]
    /\ tokens' = [tokens EXCEPT ![t] = PyNone]
    /\ exchanged' = [exchanged EXCEPT ![t] = PyNone]
    /\ ret' = [ret EXCEPT ![t] = None_id]
    /\ task' = [task EXCEPT ![t] = NoTask]
    /\ last_event_time' = [last_event_time EXCEPT ![t] = None_time]
    /\ log' = [log EXCEPT ![t] = <<>>]
    /\ rcalls' = [rcalls EXCEPT ![t] = <<>>]
    /\ polls' = [polls EXCEPT ![t] = 0]
    /\ fetched' = [fetched EXCEPT ![t] = <<>>]
    /\ exited' = [exited EXCEPT ![t] = FALSE]

\* The call of thread t ends with result r.
End(t, r) ==
    /\ pc' = [pc EXCEPT ![t] = "idle"]
    /\ result' = [result EXCEPT ![t] = r]

Goto(t, line) ==
    /\ pc' = [pc EXCEPT ![t] = line]
    /\ UNCHANGED result

\* ------------------------------------------------- Globus.init, get_globus
\* Mutant of AlreadyInitialised: the early return is never taken.
AlreadyInitialised_Never(a) == FALSE

\* Line 114: `if cls.authorizer`.
AlreadyInitialised(a) == a # None_id

\* Globus.init() is called (line 113), directly or by get_globus (line 95).
CallInit(t) ==
    /\ \E o \in {"init", "get_globus"} : Begin(t, o, "init_114", NoResult)
    /\ tc' = [tc EXCEPT ![t] = None_id]
    /\ req' = [req EXCEPT ![t] = NoRequest]
    /\ UNCHANGED <<authVars, jobs>>

\* Lines 114-115: the early return; otherwise on to _get_native_app_authorizer.
InitCheck(t) ==
    /\ pc[t] = "init_114"
    /\ IF AlreadyInitialised(authorizer)
       THEN End(t, Returned(None_id))
       ELSE Goto(t, "load_68")
    /\ UNCHANGED <<authVars, jobs, op, ncalls, initLocals, tfLocals>>

\* Lines 66-72: load the cache, ignoring any failure; branch on `not tokens`.
LoadTokens(t) ==
    /\ pc[t] = "load_68"
    /\ tokens' = [tokens EXCEPT ![t] = LoadedTokens(file)]
    /\ effects' = [effects EXCEPT ![t] = @ \cup {"cache_read"}]
    /\ IF Truthy(LoadedTokens(file))
       THEN Goto(t, "build_82")
       ELSE Goto(t, "login_73")
    /\ UNCHANGED <<authVars, jobs, op, ncalls, exchanged, ret, tfLocals>>

\* Mutant of ExchangeRaises: the failure is ignored like the load's.
ExchangeRaises_Ignored(t) == Goto(t, "build_82")

\* Line 61 is in no try block: what oauth2_exchange_code_for_tokens raises
\* leaves _do_native_app_authentication, _get_native_app_authorizer and init.
ExchangeRaises(t) == End(t, Raised("AuthAPIError", <<"exchange failed">>, ""))

\* Lines 73-76 and 49-62: the interactive login; the exchange raises or
\* returns a bundle.
Login(t) ==
    /\ pc[t] = "login_73"
    /\ \/ /\ effects' = [effects EXCEPT ![t] =
                 @ \cup {"prompt", "stdin_read", "exchange", "exchange_raised"}]
          /\ ExchangeRaises(t)
          /\ UNCHANGED <<tokens, exchanged>>
       \/ \E b \in ExchangeBundles :
             /\ effects' = [effects EXCEPT ![t] =
                    @ \cup {"prompt", "stdin_read", "exchange"}]
             /\ tokens' = [tokens EXCEPT ![t] = PyDict(b)]
             /\ exchanged' = [exchanged EXCEPT ![t] = PyDict(b)]
             /\ Goto(t, "save_78")
    /\ UNCHANGED <<authVars, jobs, op, ncalls, ret, tfLocals>>

\* Mutant of SaveDone: a failed save leaves init.
SaveDone_Raises(t, ok) ==
    IF ok THEN Goto(t, "build_82")
    ELSE End(t, Raised("OSError", <<"save failed">>, ""))

\* Lines 79-81: `except Exception: pass`; on to line 82 whether or not the
\* save raised.
SaveDone(t, ok) == Goto(t, "build_82")

\* Lines 77-80: save the bundle, ignoring any failure.
SaveTokens(t) ==
    /\ pc[t] = "save_78"
    /\ \E o \in SaveOutcomes(file, tokens[t]) :
          /\ file' = o.file
          /\ effects' = [effects EXCEPT ![t] =
                @ \cup {"file_write"} \cup (IF o.ok THEN {"saved"} ELSE {})]
          /\ SaveDone(t, o.ok)
    /\ UNCHANGED <<authorizer, objs, refreshes, last_refresh, jobs, op, ncalls,
                   tokens, exchanged, ret, tfLocals>>

\* Line 82 and lines 87-90: the subscripts that raise on this value.
BuildRaises(v) ==
    CASE v.type = "list" -> "TypeError"
      [] v.type = "dict" /\ TRANSFER_RS \notin DOMAIN v.items -> "KeyError"
      [] v.type = "dict" /\ {"refresh_token", "access_token", "expires_at_seconds"}
                              \ DOMAIN v.items[TRANSFER_RS] # {} -> "KeyError"
      [] v.type = "NoneType" -> "TypeError"
      [] OTHER -> ""

\* Lines 86-91: the authorizer seeded from the transfer record.
NewAuthorizer(v) ==
    [refresh_token |-> v.items[TRANSFER_RS]["refresh_token"],
     access_token |-> v.items[TRANSFER_RS]["access_token"],
     expires_at |-> v.items[TRANSFER_RS]["expires_at_seconds"]]

\* Lines 82-91: pick the transfer record and construct the authorizer.
BuildAuthorizer(t) ==
    /\ pc[t] = "build_82"
    /\ IF BuildRaises(tokens[t]) # ""
       THEN /\ End(t, Raised(BuildRaises(tokens[t]), <<TRANSFER_RS>>, ""))
            /\ UNCHANGED <<objs, ret>>
       ELSE /\ objs' = Append(objs, NewAuthorizer(tokens[t]))
            /\ ret' = [ret EXCEPT ![t] = Len(objs) + 1]
            /\ Goto(t, "assign_116")
    /\ UNCHANGED <<authorizer, file, refreshes, last_refresh, jobs, op, ncalls,
                   effects, tokens, exchanged, tfLocals>>

\* Mutant of Assigned: an authorizer already assigned is kept.
Assigned_KeepFirst(old, new) == IF old # None_id THEN old ELSE new

\* Line 116 is a plain assignment: the value of cls.authorizer after it.
Assigned(old, new) == new

\* Line 116: cls.authorizer = ...; init returns (and get_globus returns a
\* Globus instance, line 96).
AssignAuthorizer(t) ==
    /\ pc[t] = "assign_116"
    /\ authorizer' = Assigned(authorizer, ret[t])
    /\ End(t, Returned(None_id))
    /\ UNCHANGED <<objs, file, refreshes, last_refresh, jobs, op, ncalls,
                   initLocals, tfLocals>>

\* Lines 118-120: get_authorizer().
GetAuthorizer(t) ==
    /\ Begin(t, "get_authorizer", "idle", Returned(authorizer))
    /\ tc' = [tc EXCEPT ![t] = None_id]
    /\ req' = [req EXCEPT ![t] = NoRequest]
    /\ UNCHANGED <<authVars, jobs>>

\* ------------------------------------------------- the Transfer service
\* The pcs at which a transfer_file call has a task to poll.
PollLines == {"wait_140", "poll_141", "events_143", "final_156", "fail_162"}

\* A job as the service holds it: its status, its error events, oldest
\* first, and the caller whose submit_transfer created it.
NewJob(t) == [status |-> "ACTIVE", events |-> <<>>, by |-> t]

\* The jobs thread t's calls have submitted.
JobsOf(t) == {n \in 1..Len(jobs) : jobs[n].by = t}

\* Mutant of get_task: the document of the job submitted after this one.
get_task_Next(id) == [task_id |-> TaskId(JobOf(id) + 1), status |-> jobs[JobOf(id)].status]

\* tc.get_task(task_id): the task document.
get_task(id) == [task_id |-> id, status |-> jobs[JobOf(id)].status]

\* tc.task_event_list(task_id, num_results=1, filter='is_error:1').data:
\* the most recent error event, if the job has any.
task_event_list(id) ==
    LET ev == jobs[JobOf(id)].events
    IN IF ev = <<>> THEN <<>> ELSE <<ev[Len(ev)]>>

\* tc.task_wait(task_id, 60, 15) when it returns: False if the job is ACTIVE
\* after the timeout, True otherwise (lines 134-139).
task_wait(id) == jobs[JobOf(id)].status # "ACTIVE"

\* Some transfer_file call is polling job n (a job nobody polls is not
\* observed any more, and the model lets it rest).
Polled(n) == \E t \in Threads : pc[t] \in PollLines /\ task[t].task_id = TaskId(n)

\* The job reaches a terminal status.
RemoteFinish ==
    /\ \E n \in 1..Len(jobs), s \in {"SUCCEEDED", "FAILED"} :
          /\ Polled(n)
          /\ jobs[n].status = "ACTIVE"
          /\ jobs' = [jobs EXCEPT ![n].status = s]
    /\ UNCHANGED <<authVars, pc, op, ncalls, result, initLocals, tfLocals>>

\* The service records an error event for an ACTIVE job; its timestamp is not
\* earlier than the previous event's.
RemoteErrorEvent ==
    /\ \E n \in 1..Len(jobs) :
          LET ev == jobs[n].events
              k == Len(ev) + 1
              times == IF ev = <<>> THEN {1}
                       ELSE {ev[Len(ev)].time, ev[Len(ev)].time + 1}
          IN /\ Polled(n)
             /\ jobs[n].status = "ACTIVE"
             /\ Len(ev) < MaxEvents
             /\ \E tm \in times :
                   jobs' = [jobs EXCEPT ![n].events = Append(@,
                               [time |-> tm,
                                description |-> EventDescription(k),
                                details |-> EventDetails(k)])]
    /\ UNCHANGED <<authVars, pc, op, ncalls, result, initLocals, tfLocals>>

\* The timestamps an event can carry when the clocks that stamp a job's
\* events are not synchronised: an earlier one and a later one.
EventClock == {1, 2}

\* The service records an error event for an ACTIVE job, stamped by a clock
\* that bears no relation to the previous event's.
RemoteErrorEventUnordered ==
    /\ \E n \in 1..Len(jobs) :
          LET ev == jobs[n].events
              k == Len(ev) + 1
          IN /\ Polled(n)
             /\ jobs[n].status = "ACTIVE"
             /\ Len(ev) < MaxUnorderedEvents
             /\ \E tm \in EventClock :
                   jobs' = [jobs EXCEPT ![n].events = Append(@,
                               [time |-> tm,
                                description |-> EventDescription(k),
                                details |-> EventDetails(k)])]
    /\ UNCHANGED <<authVars, pc, op, ncalls, result, initLocals, tfLocals>>

\* ------------------------------------------------- Globus.transfer_file
\* Mutant of SubmitFailMessage: the cause is left out of the message.
SubmitFailMessage_NoCause(r, e) ==
    <<"Globus transfer from ", r.src_ep, r.src_path, " to ", r.dst_ep, r.dst_path,
      " failed">>

\* Lines 130-131: the message of the error raised when the submit raises.
SubmitFailMessage(r, e) ==
    <<"Globus transfer from ", r.src_ep, r.src_path, " to ", r.dst_ep, r.dst_path,
      " failed due to error: ", e>>

\* Lines 164-165: the message of the error raised for a job that did not
\* succeed.
FailMessage(tk, r, event) ==
    <<"Globus transfer ", tk.task_id, ", from ", r.src_ep, r.src_path, " to ",
      r.dst_ep, r.dst_path, " failed due to error: \"", event.details, "\"">>

\* Mutant of NotYetPrinted: every fetched event is logged.
NotYetPrinted_Always(event, last) == TRUE

\* Mutant of NotYetPrinted: an event is logged only if no warning with its
\* timestamp was ever logged.
NotYetPrinted_Ever(event, last) ==
    \A u \in Threads : \A i \in 1..Len(log[u]) :
        log[u][i].level = "WARNING" => log[u][i].time # event.time

\* Mutant of NotYetPrinted: the time of the last event logged is kept in one
\* place for all calls.
NotYetPrinted_Shared(event, last) ==
    \A u \in Threads : event.time # last_event_time[u]

\* Line 146: the event was not yet printed.
NotYetPrinted(event, last) == event.time # last

\* Mutant of IsSucceeded: any status but ACTIVE counts as success.
IsSucceeded_NotActive(tk) == tk.status # "ACTIVE"

\* Line 157: the final status is SUCCEEDED.
IsSucceeded(tk) == tk.status = "SUCCEEDED"

Warning(event) == [level |-> "WARNING", time |-> event.time, text |-> event.description]
Debug(tm, text) == [level |-> "DEBUG", time |-> tm, text |-> text]
RemoteCall(name, id) == [name |-> name, task_id |-> id]

Record(t, name, id) == rcalls' = [rcalls EXCEPT ![t] = Append(@, RemoteCall(name, id))]

\* Line 123-126: transfer_file is called; the client takes cls.authorizer.
CallTransferFile(t) ==
    /\ Cardinality(JobsOf(t)) < MaxJobs
    /\ Begin(t, "transfer_file", "submit_128", NoResult)
    /\ \E r \in Requests : req' = [req EXCEPT ![t] = r]
    /\ tc' = [tc EXCEPT ![t] = authorizer]
    /\ UNCHANGED <<authVars, jobs>>

\* Lines 127-133: submit; a failure is re-raised with the request in the
\* message.  The service accepts only an authorized client's request.
Submit(t) ==
    /\ pc[t] = "submit_128"
    /\ Record(t, "submit_transfer", "")
    /\ \/ \E e \in SubmitErrors :
             /\ End(t, Raised("Exception", SubmitFailMessage(req[t], e), e))
             /\ UNCHANGED <<jobs, task, last_event_time>>
       \/ /\ tc[t] # None_id
          /\ jobs' = Append(jobs, NewJob(t))
          /\ task' = [task EXCEPT ![t] = [task_id |-> TaskId(Len(jobs) + 1), status |-> ""]]
          /\ last_event_time' = [last_event_time EXCEPT ![t] = None_time]
          /\ Goto(t, "wait_140")
    /\ UNCHANGED <<authVars, op, ncalls, initLocals, tc, req, log, polls, fetched, exited>>

\* The wait periods that have elapsed in the threads' current calls.
RECURSIVE SumPolls(_)
SumPolls(T) ==
    IF T = {} THEN 0
    ELSE LET u == CHOOSE x \in T : TRUE IN polls[u] + SumPolls(T \ {u})

\* Line 140: task_wait returns; False starts another iteration.
TaskWait(t) ==
    /\ pc[t] = "wait_140"
    /\ Record(t, "task_wait", task[t].task_id)
    /\ IF task_wait(task[t].task_id)
       THEN /\ exited' = [exited EXCEPT ![t] = TRUE]
            /\ Goto(t, "final_156")
            /\ UNCHANGED polls
       ELSE /\ SumPolls(Threads) < MaxPolls
            /\ polls' = [polls EXCEPT ![t] = @ + 1]
            /\ Goto(t, "poll_141")
            /\ UNCHANGED exited
    /\ UNCHANGED <<authVars, jobs, op, ncalls, initLocals, tc, req, task,
                   last_event_time, log, fetched>>

\* Line 141: re-fetch the task.
PollTask(t) ==
    /\ pc[t] = "poll_141"
    /\ Record(t, "get_task", task[t].task_id)
    /\ task' = [task EXCEPT ![t] = get_task(task[t].task_id)]
    /\ Goto(t, "events_143")
    /\ UNCHANGED <<authVars, jobs, op, ncalls, initLocals, tc, req,
                   last_event_time, log, polls, fetched, exited>>

\* Lines 143-150: fetch the last error event; log it if it was not yet
\* printed.  events.data[0] raises IndexError when there is none.
PollEvent(t) ==
    /\ pc[t] = "events_143"
    /\ Record(t, "task_event_list", task[t].task_id)
    /\ LET data == task_event_list(task[t].task_id)
       IN IF data = <<>>
          THEN /\ End(t, Raised("IndexError", <<"list index out of range">>, ""))
               /\ UNCHANGED <<last_event_time, log, fetched>>
          ELSE LET event == data[1]
               IN /\ fetched' = [fetched EXCEPT ![t] = Append(@, event.time)]
                  /\ IF NotYetPrinted(event, last_event_time[t])
                     THEN /\ last_event_time' = [last_event_time EXCEPT ![t] = event.time]
                          /\ log' = [log EXCEPT ![t] =
                                @ \o <<Warning(event), Debug(event.time, event.details)>>]
                     ELSE UNCHANGED <<last_event_time, log>>
                  /\ Goto(t, "wait_140")
    /\ UNCHANGED <<authVars, jobs, op, ncalls, initLocals, tc, req, task, polls, exited>>

\* Lines 156-161: re-fetch the task after the loop; return if it SUCCEEDED.
FinalStatus(t) ==
    /\ pc[t] = "final_156"
    /\ Record(t, "get_task", task[t].task_id)
    /\ task' = [task EXCEPT ![t] = get_task(task[t].task_id)]
    /\ IF IsSucceeded(get_task(task[t].task_id))
       THEN /\ log' = [log EXCEPT ![t] = Append(@, Debug(None_time, "succeeded"))]
            /\ End(t, Returned(None_id))
       ELSE /\ log' = [log EXCEPT ![t] = Append(@, Debug(None_time, "task"))]
            /\ Goto(t, "fail_162")
    /\ UNCHANGED <<authVars, jobs, op, ncalls, initLocals, tc, req,
                   last_event_time, polls, fetched, exited>>

\* Lines 162-165: fetch the last error event and raise with its details.
FinalEvent(t) ==
    /\ pc[t] = "fail_162"
    /\ Record(t, "task_event_list", task[t].task_id)
    /\ LET data == task_event_list(task[t].task_id)
       IN IF data = <<>>
          THEN End(t, Raised("IndexError", <<"list index out of range">>, ""))
          ELSE End(t, Raised("Exception", FailMessage(task[t], req[t], data[1]), ""))
    /\ UNCHANGED <<authVars, jobs, op, ncalls, initLocals, tc, req, task,
                   last_event_time, log, polls, fetched, exited>>

\* ------------------------------------------------------------- refresh
\* Mutant of _update_tokens_file_on_refresh: the bundle is merged into the
\* file's content.
_update_tokens_file_on_refresh_Merge(f, by_resource_server) ==
    LET old == LoadedTokens(f)
        keep == IF old.type = "dict" THEN DOMAIN old.items \ DOMAIN by_resource_server
                ELSE {}
    IN SaveOutcomes(f, PyDict([k \in keep \cup DOMAIN by_resource_server |->
                                 IF k \in keep THEN old.items[k] ELSE by_resource_server[k]]))

\* _update_tokens_file_on_refresh(token_response), lines 45-46.
_update_tokens_file_on_refresh(f, by_resource_server) ==
    SaveOutcomes(f, PyDict(by_resource_server))

\* The pcs at which a thread is inside a request of its TransferClient.
RequestLines == {"submit_128", "wait_140", "poll_141", "events_143", "final_156", "fail_162"}

\* The authorizer renews its access token and calls on_refresh (line 91).
\* It does so inside a request of a client that holds it, or while the
\* caller uses the authorizer it got from get_authorizer().
Refresh(t) ==
    LET a == IF pc[t] = "idle" THEN authorizer ELSE tc[t]
        b == RefreshBundle(refreshes + 1)
    IN /\ pc[t] \in RequestLines \cup {"idle"}
       /\ a # None_id
       /\ refreshes < MaxRefreshes
       /\ refreshes' = refreshes + 1
       /\ objs' = [objs EXCEPT ![a].access_token = b[TRANSFER_RS]["access_token"],
                               ![a].expires_at = b[TRANSFER_RS]["expires_at_seconds"]]
       /\ \E o \in _update_tokens_file_on_refresh(file, b) :
             /\ file' = o.file
             /\ last_refresh' = [n |-> refreshes + 1, bundle |-> b, ok |-> o.ok]
       /\ UNCHANGED <<authorizer, jobs, pc, op, ncalls, result, initLocals, tfLocals>>

\* ------------------------------------------------------ specifications
AuthStep(t) ==
    \/ CallInit(t)
    \/ InitCheck(t)
    \/ LoadTokens(t)
    \/ Login(t)
    \/ SaveTokens(t)
    \/ BuildAuthorizer(t)
    \/ AssignAuthorizer(t)
    \/ GetAuthorizer(t)
    \/ Refresh(t)

TransferStep(t) ==
    \/ CallTransferFile(t)
    \/ Submit(t)
    \/ TaskWait(t)
    \/ PollTask(t)
    \/ PollEvent(t)
    \/ FinalStatus(t)
    \/ FinalEvent(t)

\* A single-threaded process: the main thread makes every call.
Next ==
    \/ AuthStep(MainThread)
    \/ TransferStep(MainThread)
    \/ RemoteFinish
    \/ RemoteErrorEvent

Spec == Init /\ [][Next]_vars

\* The authorizer manager alone: init, get_globus, get_authorizer, refresh.
NextAuth == AuthStep(MainThread)

SpecAuth == Init /\ [][NextAuth]_vars

\* The state in which Globus.init() has returned after building the
\* authorizer from a cached bundle: transfer_file's precondition.
CachedBundle == (AUTH_RS :> TokenRecord(1, 1)) @@ (TRANSFER_RS :> TokenRecord(1, 1))

InitTransfer ==
    /\ authorizer = 1
    /\ objs = <<NewAuthorizer(PyDict(CachedBundle))>>
    /\ file = PresentFile(json_dump(PyDict(CachedBundle)))
    /\ refreshes = 0
    /\ last_refresh = NoRefresh
    /\ jobs = <<>>
    /\ pc = [t \in Threads |-> "idle"]
    /\ op = [t \in Threads |-> IF t = MainThread THEN "init" ELSE "none"]
    /\ ncalls = [t \in Threads |-> IF t = MainThread THEN 1 ELSE 0]
    /\ result = [t \in Threads |-> IF t = MainThread THEN Returned(None_id) ELSE NoResult]
    /\ effects = [t \in Threads |-> IF t = MainThread THEN {"cache_read"} ELSE {}]
    /\ tokens = [t \in Threads |-> IF t = MainThread THEN PyDict(CachedBundle) ELSE PyNone]
    /\ exchanged = [t \in Threads |-> PyNone]
    /\ ret = [t \in Threads |-> IF t = MainThread THEN 1 ELSE None_id]
    /\ tc = [t \in Threads |-> None_id]
    /\ req = [t \in Threads |-> NoRequest]
    /\ task = [t \in Threads |-> NoTask]
    /\ last_event_time = [t \in Threads |-> None_time]
    /\ log = [t \in Threads |-> <<>>]
    /\ rcalls = [t \in Threads |-> <<>>]
    /\ polls = [t \in Threads |-> 0]
    /\ fetched = [t \in Threads |-> <<>>]
    /\ exited = [t \in Threads |-> FALSE]

\* transfer_file calls of an initialised process against the service.
NextTransfer ==
    \/ TransferStep(MainThread)
    \/ RemoteFinish
    \/ RemoteErrorEvent

SpecTransfer == InitTransfer /\ [][NextTransfer]_vars

\* transfer_file calls of two threads of an initialised process; each call
\* builds its own TransferClient from the shared authorizer.
\* The steps of a thread that makes one transfer_file call.
FirstTransferStep(t) ==
    \/ op[t] # "transfer_file" /\ CallTransferFile(t)
    \/ Submit(t)
    \/ TaskWait(t)
    \/ PollTask(t)
    \/ PollEvent(t)
    \/ FinalStatus(t)
    \/ FinalEvent(t)

NextTransfers ==
    \/ \E t \in Threads : FirstTransferStep(t)
    \/ RemoteFinish
    \/ RemoteErrorEvent

SpecTransfers == InitTransfer /\ [][NextTransfers]_vars

\* One thread's transfer_file calls against a service whose event
\* timestamps are not ordered.
NextTransferUnordered ==
    \/ TransferStep(MainThread)
    \/ RemoteFinish
    \/ RemoteErrorEventUnordered

SpecTransferUnordered == InitTransfer /\ [][NextTransferUnordered]_vars

\* Globus has no lock: any thread may call into the authorizer manager, and
\* the calls interleave statement by statement.
NextInitRace == \E t \in Threads : AuthStep(t)

SpecInitRace == Init /\ [][NextInitRace]_vars

\* ------------------------------------------------------------ properties
Contains(msg, x) == \E i \in 1..Len(msg) : msg[i] = x

\* Thread t's transfer_file call has ended.
TransferEnded(t) == op[t] = "transfer_file" /\ pc[t] = "idle"

\* Thread t's submission was accepted: it has a task.
Submitted(t) == op[t] = "transfer_file" /\ task[t].task_id # ""

\* The job of thread t's task, as the service holds it.
JobOfThread(t) == jobs[JobOf(task[t].task_id)]

\* The times of the warnings thread t's call logged, in order.
RECURSIVE WarningTimes(_)
WarningTimes(l) ==
    IF l = <<>> THEN <<>>
    ELSE IF Head(l).level = "WARNING"
         THEN <<Head(l).time>> \o WarningTimes(Tail(l))
         ELSE WarningTimes(Tail(l))

\* A sequence without the elements that repeat their predecessor.
RECURSIVE Distinct(_)
Distinct(f) ==
    IF Len(f) <= 1 THEN f
    ELSE IF f[Len(f)] = f[Len(f) - 1]
         THEN Distinct(SubSeq(f, 1, Len(f) - 1))
         ELSE Append(Distinct(SubSeq(f, 1, Len(f) - 1)), f[Len(f)])

InitOps == {"init", "get_globus"}

C2_ReturnOnlyIfSucceeded ==
    \A t \in Threads :
        TransferEnded(t) =>
            /\ result[t].kind \in {"returned", "raised"}
            /\ result[t].kind = "returned" =>
                  /\ exited[t]
                  /\ task[t].status = "SUCCEEDED"
                  /\ rcalls[t][Len(rcalls[t])] = RemoteCall("get_task", task[t].task_id)
                  /\ JobOfThread(t).status = "SUCCEEDED"
            /\ (Submitted(t) /\ JobOfThread(t).status # "SUCCEEDED") =>
                  result[t].kind = "raised"

\* C2 witness: a call returned normally after at least one elapsed wait period.
C2_Witness ==
    \E t \in Threads :
        TransferEnded(t) /\ result[t].kind = "returned" /\ polls[t] >= 1

\* C3 (on the jobs with no error event): for a job that was accepted, was
\* ACTIVE for some wait periods and then SUCCEEDED, transfer_file returns
\* without raising and logs no warning.  (Violated: the first elapsed wait
\* period raises IndexError at line 144.)
C3_SucceededJobReturns ==
    \A t \in Threads :
        (TransferEnded(t) /\ Submitted(t) /\ JobOfThread(t).status = "SUCCEEDED"
            /\ JobOfThread(t).events = <<>>) =>
            /\ result[t].kind = "returned"
            /\ WarningTimes(log[t]) = <<>>

\* C4: when the submit raises, transfer_file raises an error whose message
\* holds both endpoints, both paths and the cause; the submit was its only
\* remote call (no polling, no second submit).
C4_SubmitFailure ==
    \A t \in Threads :
        (TransferEnded(t) /\ ~Submitted(t)) =>
            /\ result[t].kind = "raised"
            /\ result[t].cause \in SubmitErrors
            /\ Contains(result[t].msg, result[t].cause)
            /\ Contains(result[t].msg, req[t].src_ep)
            /\ Contains(result[t].msg, req[t].dst_ep)
            /\ Contains(result[t].msg, req[t].src_path)
            /\ Contains(result[t].msg, req[t].dst_path)
            /\ rcalls[t] = <<RemoteCall("submit_transfer", "")>>
            /\ polls[t] = 0

\* C4 witness: a call ended by a failed submit.
C4_Witness ==
    \E t \in Threads :
        TransferEnded(t) /\ ~Submitted(t) /\ result[t].cause = "EndpointNotFound"

\* C5: a poll iteration logs a warning exactly when the fetched event's
\* timestamp differs from that of the last event logged (the first fetched
\* event is always logged): the warnings are the fetched timestamps without
\* those that repeat their predecessor, and last_event_time is the last
\* fetched timestamp.
C5_Dedup ==
    \A t \in Threads :
        /\ WarningTimes(log[t]) = Distinct(fetched[t])
        /\ last_event_time[t] =
              IF fetched[t] = <<>> THEN None_time ELSE fetched[t][Len(fetched[t])]

\* C5 witness: two consecutive polls fetched events with the same timestamp
\* and one warning was logged.
C5_Witness ==
    \E t \in Threads :
        /\ Len(fetched[t]) = 2
        /\ fetched[t][1] = fetched[t][2]
        /\ Len(WarningTimes(log[t])) = 1

\* C6 (its second half): there is no local bound, so while the job stays
\* ACTIVE the call does not end.  (Violated: an elapsed wait period of a job
\* with no error event raises IndexError at line 144.)
C6_BlockedWhileActive ==
    \A t \in Threads :
        (Submitted(t) /\ JobOfThread(t).status = "ACTIVE") => pc[t] # "idle"

\* The scheduling C6's first half assumes: the calling thread keeps running
\* and the service ends every job it is asked about.
FairSpecTransfer ==
    /\ SpecTransfer
    /\ WF_vars(TransferStep(MainThread))
    /\ WF_vars(RemoteFinish)

\* C6 (its first half): if the job eventually leaves ACTIVE, a call whose
\* submission was accepted eventually ends.
C6_EndsWhenJobEnds ==
    \A t \in Threads : (pc[t] = "wait_140") ~> (pc[t] = "idle")

\* C7: at most one authorizer is ever constructed; once one is assigned the
\* class attribute keeps it; an init() that finds it is a no-op (no cache
\* read, no login, no file write); get_authorizer() returns the class
\* attribute, which is None until an init() has succeeded.
C7_OneAuthorizer ==
    [][ /\ Len(objs') <= 1
        /\ authorizer # None_id => authorizer' = authorizer
        /\ authorizer' # None_id => authorizer' = Len(objs')
        /\ \A t \in Threads :
              /\ (pc[t] = "init_114" /\ pc'[t] # "init_114" /\ authorizer # None_id) =>
                    /\ pc'[t] = "idle"
                    /\ result'[t] = Returned(None_id)
                    /\ effects'[t] = {}
                    /\ UNCHANGED <<authorizer, objs, file>>
              /\ (op'[t] = "get_authorizer") =>
                    /\ result'[t] = Returned(authorizer')
                    /\ objs' = <<>> => result'[t].value = None_id
      ]_vars

\* C7 witness: after a successful init() a later init() returned as a no-op.
C7_Witness ==
    \E t \in Threads :
        /\ op[t] \in InitOps /\ pc[t] = "idle" /\ ncalls[t] >= 2
        /\ authorizer # None_id
        /\ effects[t] = {}
        /\ result[t].kind = "returned"

\* C8: a cache file that is missing, unreadable, not JSON, or JSON lacking
\* the transfer record or one of its fields makes initialize() log in
\* interactively, and initialize() does not raise because of it.
\* (Violated: a non-empty JSON object lacking them skips the login and
\* raises KeyError at lines 82-90.)
C8_BadCacheFallsBack ==
    \A t \in Threads :
        /\ (op[t] \in InitOps /\ pc[t] = "build_82" /\ "exchange" \notin effects[t]) =>
              BuildRaises(tokens[t]) = ""
        /\ result[t].type \notin {"KeyError", "TypeError"}

\* C9: after an interactive login whose save succeeded, the cache file
\* re-parsed is the bundle the code exchange returned (until a refresh
\* rewrites it), and the authorizer is seeded from that bundle's transfer
\* record.
C9_LoginRoundTrip ==
    \A t \in Threads :
        /\ ("saved" \in effects[t] /\ refreshes = 0) =>
              /\ ~LoadRaises(file)
              /\ _load_tokens_from_file(file) = exchanged[t]
              /\ tokens[t] = exchanged[t]
        /\ ("exchange" \in effects[t] /\ ret[t] # None_id /\ refreshes = 0) =>
              /\ objs[ret[t]].access_token = exchanged[t].items[TRANSFER_RS]["access_token"]
              /\ objs[ret[t]].refresh_token = exchanged[t].items[TRANSFER_RS]["refresh_token"]
              /\ objs[ret[t]].expires_at = exchanged[t].items[TRANSFER_RS]["expires_at_seconds"]

\* C9 witness: init() logged in, saved the bundle and assigned the authorizer.
C9_Witness ==
    \E t \in Threads :
        /\ "saved" \in effects[t] /\ pc[t] = "idle" /\ refreshes = 0
        /\ authorizer = ret[t] /\ authorizer # None_id
        /\ exchanged[t].items[TRANSFER_RS]["access_token"] = 2

C11_LoginFailurePropagates ==
    [][ \A t \in Threads :
          /\ "exchange_raised" \in effects'[t] =>
                /\ pc'[t] = "idle"
                /\ result'[t].kind = "raised"
                /\ result'[t].type = "AuthAPIError"
                /\ authorizer' = None_id
                /\ objs' = <<>>
                /\ ret'[t] = None_id
                /\ "file_write" \notin effects'[t]
                /\ file' = file
          /\ (pc[t] = "init_114" /\ pc'[t] # "init_114" /\ authorizer = None_id) =>
                pc'[t] = "load_68"
      ]_vars

\* C11 witness: a get_globus() call ended by a failed code exchange, after an
\* earlier call.
C11_Witness ==
    \E t \in Threads :
        /\ "exchange_raised" \in effects[t]
        /\ op[t] = "get_globus" /\ pc[t] = "idle" /\ ncalls[t] >= 2

\* C12: when the save after an interactive login fails, initialize() does
\* not raise, and the authorizer is established from the bundle just
\* obtained.
C12_SaveFailureIgnored ==
    \A t \in Threads :
        ("file_write" \in effects[t] /\ "saved" \notin effects[t]) =>
            /\ result[t].kind # "raised"
            /\ pc[t] \in {"build_82", "assign_116", "idle"}
            /\ tokens[t] = exchanged[t]
            /\ pc[t] = "idle" =>
                  /\ result[t].kind = "returned"
                  /\ authorizer = ret[t]
                  /\ authorizer # None_id
                  /\ objs[authorizer].refresh_token =
                        exchanged[t].items[TRANSFER_RS]["refresh_token"]
                  /\ refreshes = 0 =>
                        /\ objs[authorizer].access_token =
                              exchanged[t].items[TRANSFER_RS]["access_token"]
                        /\ objs[authorizer].expires_at =
                              exchanged[t].items[TRANSFER_RS]["expires_at_seconds"]

\* C12 witness: init() returned with the authorizer assigned although the
\* save had failed and had truncated the file.
C12_Witness ==
    \E t \in Threads :
        /\ "file_write" \in effects[t] /\ "saved" \notin effects[t]
        /\ pc[t] = "idle" /\ authorizer # None_id
        /\ file = PresentFile(NoText)

\* C13: init() is not safe against concurrent callers.  Every thread that
\* passes the line-114 check does so because no authorizer is assigned yet,
\* each such thread constructs an authorizer of its own, so as many
\* authorizers can be constructed as there are threads (and no more), and
\* each assignment at line 116 replaces whatever was assigned before.
C13_RaceBounded ==
    [][ /\ Len(objs') <= Cardinality(Threads)
        /\ \A t \in Threads :
              /\ (pc[t] = "init_114" /\ pc'[t] = "load_68") => authorizer = None_id
              /\ (pc[t] = "build_82" /\ pc'[t] = "assign_116")
                    => /\ Len(objs') = Len(objs) + 1
                       /\ ret'[t] = Len(objs')
              /\ (pc[t] = "assign_116" /\ pc'[t] = "idle") => authorizer' = ret[t]
      ]_vars

\* Both threads passed the check, both logged in, two authorizers were
\* constructed and the later assignment replaced the earlier one.
C13_Witness ==
    /\ Len(objs) = Cardinality(Threads)
    /\ \A t \in Threads :
          /\ op[t] = "init"
          /\ pc[t] = "idle"
          /\ ncalls[t] = 1
          /\ {"prompt", "stdin_read", "exchange"} \subseteq effects[t]
          /\ ret[t] # None_id
    /\ \E t, u \in Threads : ret[t] # ret[u] /\ authorizer = ret[u] /\ ret[t] < ret[u]

\* How a transfer_file call that has ended must have ended if nothing but
\* its own request and its own job decided it (lines 128-131, 140-144,
\* 156-165).
SoloOutcomes(t) ==
    IF ~Submitted(t)
    THEN {Raised("Exception", SubmitFailMessage(req[t], e), e) : e \in SubmitErrors}
    ELSE LET job == JobOfThread(t)
             last == job.events[Len(job.events)]
         IN IF job.events = <<>> /\ (~exited[t] \/ job.status # "SUCCEEDED")
            THEN {Raised("IndexError", <<"list index out of range">>, "")}
            ELSE IF job.status = "SUCCEEDED"
                 THEN {Returned(None_id)}
                 ELSE {Raised("Exception",
                              FailMessage([task_id |-> task[t].task_id, status |-> job.status],
                                          req[t], last), "")}

\* C14: concurrent transfer_file calls do not interfere.  In every
\* interleaving of two calls each call has a job of its own, addresses every
\* remote call after the submit to its own task id, fetches only its own
\* job's events, logs exactly the warnings its own fetched timestamps give
\* (dedup against its own last logged time), and ends as its own request
\* and job decide.
C14_NoInterference ==
    \A t \in Threads :
        /\ WarningTimes(log[t]) = Distinct(fetched[t])
        /\ TransferEnded(t) => result[t] \in SoloOutcomes(t)
        /\ Submitted(t) =>
              /\ JobOfThread(t).by = t
              /\ \A u \in Threads \ {t} : Submitted(u) => task[u].task_id # task[t].task_id
              /\ \A i \in 1..Len(rcalls[t]) :
                    rcalls[t][i].name # "submit_transfer"
                       => rcalls[t][i].task_id = task[t].task_id
              /\ \A i \in 1..Len(fetched[t]) :
                    \E k \in 1..Len(JobOfThread(t).events) :
                       JobOfThread(t).events[k].time = fetched[t][i]

\* C14 witness: two calls ran interleaved on two jobs, each logged a warning
\* for an event with the same timestamp as the other's, one returned and
\* the other raised the job's failure.
C14_Witness ==
    \E t, u \in Threads :
        /\ t # u
        /\ TransferEnded(t) /\ TransferEnded(u)
        /\ Submitted(t) /\ Submitted(u)
        /\ WarningTimes(log[t]) # <<>>
        /\ WarningTimes(log[t]) = WarningTimes(log[u])
        /\ result[t] = Returned(None_id)
        /\ result[u].kind = "raised" /\ result[u].type = "Exception"
        /\ JobOf(task[t].task_id) < JobOf(task[u].task_id)

\* C15: each elapsed wait period re-fetches the status, fetches the most
\* recent error event and goes back to waiting; it never ends the call,
\* whatever the job.  (Violated: for a job with no error event
\* events.data[0] raises IndexError at line 144 and the call ends.)
C15_ElapsedWaitContinues ==
    [][ \A t \in Threads :
          /\ (pc[t] = "poll_141" /\ pc'[t] # "poll_141")
                => /\ pc'[t] = "events_143"
                   /\ rcalls'[t] = Append(rcalls[t], RemoteCall("get_task", task[t].task_id))
          /\ (pc[t] = "events_143" /\ pc'[t] # "events_143")
                => /\ pc'[t] = "wait_140"
                   /\ result'[t] = result[t]
                   /\ rcalls'[t] = Append(rcalls[t],
                                          RemoteCall("task_event_list", task[t].task_id))
      ]_vars

\* The elements of a sequence.
Range(f) == {f[i] : i \in 1..Len(f)}

NonDecreasing(f) == \A i \in 1..Len(f) - 1 : f[i] <= f[i + 1]

NoRepeat(f) == \A i, j \in 1..Len(f) : f[i] = f[j] => i = j

NonEmptyBundle(v) == v.type = "dict" /\ DOMAIN v.items # {}

NoOrEmptyBundle(v) == v = PyNone \/ v = PyDict(<<>>)

LoginEffects == {"prompt", "stdin_read", "exchange", "file_write"}

\* C17: an init() that loads a non-empty bundle goes on to build the
\* authorizer with no prompt, no stdin read, no code exchange and no write
\* of the cache file; the login starts only after a load that gave no bundle
\* or the empty one, the save only after the login, and nothing but the save
\* (and a later refresh) changes the file.
C17_CacheHitSkipsLogin ==
    [][ \A t \in Threads :
          /\ (pc[t] = "load_68" /\ pc'[t] # "load_68")
                => /\ file' = file
                   /\ NonEmptyBundle(LoadedTokens(file))
                         => pc'[t] = "build_82" /\ effects'[t] = {"cache_read"}
          /\ (pc[t] \in {"build_82", "assign_116"} /\ effects[t] = {"cache_read"})
                => file' = file /\ effects'[t] = effects[t]
          /\ (pc'[t] = "login_73" /\ pc[t] # "login_73")
                => pc[t] = "load_68" /\ NoOrEmptyBundle(LoadedTokens(file))
          /\ (pc'[t] = "save_78" /\ pc[t] # "save_78") => pc[t] = "login_73"
          /\ (effects'[t] # effects[t] /\ effects'[t] \cap LoginEffects # {})
                => pc[t] \in {"login_73", "save_78"}
          /\ (file' # file /\ refreshes' = refreshes) => \E u \in Threads : pc[u] = "save_78"
      ]_vars

\* C17 witness: an init() that found a non-empty bundle in the cache has
\* returned with the authorizer assigned, having only read the cache.
C17_Witness ==
    \E t \in Threads :
        /\ op[t] = "init"
        /\ pc[t] = "idle"
        /\ ncalls[t] = 1
        /\ result[t] = Returned(None_id)
        /\ authorizer # None_id
        /\ effects[t] = {"cache_read"}
        /\ refreshes = 0
        /\ file \in InitialFiles
        /\ NonEmptyBundle(LoadedTokens(file))

\* The positions of thread t's submit_transfer calls among its remote calls.
Submits(calls) == {i \in 1..Len(calls) : calls[i].name = "submit_transfer"}

\* C18: within one transfer_file call the request is submitted exactly once,
\* as the call's first remote call; every later remote call (task_wait,
\* get_task, task_event_list, in the loop and after it) is addressed to the
\* task id that submission returned; re-fetching the task never changes the
\* id polled; the call creates one job and no second one.
C18_OneSubmission ==
    [][ /\ \A t \in Threads :
              /\ (op'[t] = "transfer_file" /\ pc'[t] # "submit_128")
                    => /\ Submits(rcalls'[t]) = {1}
                       /\ \A i \in 2..Len(rcalls'[t]) :
                             /\ rcalls'[t][i].name \in {"task_wait", "get_task", "task_event_list"}
                             /\ rcalls'[t][i].task_id = task'[t].task_id
                             /\ task'[t].task_id # ""
              /\ pc[t] \in PollLines
                    => /\ task'[t].task_id = task[t].task_id
                       /\ jobs'[JobOf(task[t].task_id)].by = t
                       /\ Len(jobs') = Len(jobs)
                       /\ Len(rcalls'[t]) <= Len(rcalls[t]) + 1
        /\ Len(jobs') # Len(jobs)
              => \E t \in Threads :
                    /\ pc[t] = "submit_128"
                    /\ Len(jobs') = Len(jobs) + 1
                    /\ task'[t].task_id = TaskId(Len(jobs'))
      ]_vars

\* C18 witness: a call that went at least twice round the loop and then
\* fetched the final status and the last error event has ended, with one job
\* at the service.
C18_Witness ==
    \E t \in Threads :
        /\ TransferEnded(t)
        /\ Submitted(t)
        /\ polls[t] >= 2
        /\ pc[t] = "idle"
        /\ rcalls[t][Len(rcalls[t])] = RemoteCall("task_event_list", task[t].task_id)
        /\ exited[t]
        /\ Len(jobs) = 1

====
